---------------------------- MODULE Spec2Model ----------------------------
(***************************************************************************)
(* image2saw: oscillator scheduling (plan_schedule), block rendering       *)
(* (render_audio), the wav encoder (write_wav_int16_stereo) and the live   *)
(* playback loop (AudioLooper).                                            *)
(*                                                                         *)
(* Times are kept exactly, in milliseconds: the source's step_s =          *)
(* step_ms / 1000.0 and start = i * step_s (seconds, float) are the        *)
(* integers step_ms and i * step_ms here, and a product with the sample    *)
(* rate is the rational (ms * sr) / 1000, rounded the way the source       *)
(* rounds it (np.round = half to even, math.ceil, int() truncation).       *)
(* A frequency is represented by the grid cell <<r, c>> it was read from.  *)
(* A sample handed to the encoder is kept in thousandths of full scale.    *)
(***************************************************************************)
EXTENDS Integers, Sequences, FiniteSets, TLC

(***************************************************************************)
(* Bounds of the model.                                                    *)
(***************************************************************************)
MaxDim == 3
MaxVoices == 3
MaxStepMs == 2
MaxSustainMs == 1
MaxDurationMs == 5
MaxBuf == 3
MaxFrames == 5
MaxUpdates == 2
MaxCalls == 3
MaxEncFrames == 1
MaxPhaseDen == 5
MaxImg == 3

(***************************************************************************)
(* Input sets.                                                             *)
(***************************************************************************)
\* --sr : samples per second; 1300 and 1500 make step_s * sr fractional
\* (1.3, 2.6, 1.5), with products i * step_s * sr that round down, up and
\* half to even
SampleRates == {1000, 1300, 1500}
\* --block-ms : 0 gives the floor n_block = 1, 100 a block longer than all
BlockMsSet == {0, 1, 2, 100}
\* --voices (type=int, unchecked by the parser)
VoicesSet == -1 .. MaxVoices
\* --step-ms (type=float, unchecked by the parser)
StepMsSet == -1 .. MaxStepMs
\* --sustain-s, as milliseconds
SustainMsSet == 0 .. MaxSustainMs
\* --duration-s, as milliseconds
DurationMsSet == 1 .. MaxDurationMs
\* size of the source image, (width, height)
OrigSizes == {<<1, 1>>, <<2, 1>>, <<1, 2>>}
\* the waveform argument of render_audio: two known kinds, one of them in
\* capitals (the kind is compared after .lower()), and an unknown kind
WaveformSet == {"saw", "Sine", "noise"}
\* the waveform both callers fall back to
DefaultWaveform == "saw"
\* --fade-ms (type=float, unchecked by the parser): negative, none, shorter
\* and longer than an oscillator's half span
FadeMsSet == {-1, 0, 1, 2, 5}
\* the default of --fade-ms
DefaultFadeMs == 2
\* the configurations of the renders whose envelopes are examined
EnvArgs ==
    [step_ms : {1, 2}, voices : {1, 2, 3}, sustain_ms : {0},
     sr : SampleRates, block_ms : {1, 2, 100}, stereo : {TRUE}]
\* the size argument of _build_waveform_lut: the smallest tables and the
\* one render_audio builds
WAVE_LUT_SIZE == 4096
LutSizes == {1, 4, WAVE_LUT_SIZE}
\* width or height of the image the engine is opened on: images smaller and
\* larger than the default crop of 16 x 16
ImageDims == {1, MaxImg, 20}
\* an argument of set_crop / set_center_crop: negative, zero, inside and
\* beyond the image
CropArgs == {-1, 0, 1, MaxImg, 25}
\* the configurations of a session of repeated renders
SessionArgs ==
    [step_ms : {1}, voices : {1, 2}, sustain_ms : {0, 1},
     sr : {1000}, block_ms : {1}, stereo : {TRUE}]
\* sample values handed to the wav encoder, in thousandths: silence, a
\* small value, values below, at and above the 0.999 ceiling and above 1.0
AmpSet == {-2000, -500, 0, 1, 999, 1000}
\* shapes (rows, columns) of the frequency grids of a session, the empty
\* grids among them
GridShapes == {<<0, 0>>, <<0, 1>>, <<1, 0>>, <<1, 1>>, <<2, 2>>}

(***************************************************************************)
(* Arithmetic of the source.                                               *)
(***************************************************************************)
Max(a, b) == IF a >= b THEN a ELSE b

Min(a, b) == IF a <= b THEN a ELSE b

\* math.ceil(num / den), den > 0
Ceil(num, den) == -((-num) \div den)

\* np.round / round(num / den): round half to even, den > 0
RoundPos(num, den) ==
    LET q == num \div den
        r == num % den
    IN  IF 2 * r < den THEN q
        ELSE IF 2 * r > den THEN q + 1
        ELSE IF q % 2 = 0 THEN q ELSE q + 1

\* round(num / den) for a denominator of either sign, den # 0
Round(num, den) == IF den > 0 THEN RoundPos(num, den) ELSE RoundPos(-num, -den)

\* round(math.sqrt(num / den)), num >= 0, den > 0: the k >= 0 with
\* (k - 1/2)^2 <= num/den <= (k + 1/2)^2, a tie going to the even k
RoundSqrt(num, den) ==
    LET Below(k) == (2 * k + 1) * (2 * k + 1) * den < 4 * num
        Tie(k) == (2 * k + 1) * (2 * k + 1) * den = 4 * num
        k0 == CHOOSE k \in 0 .. (num + 1) :
                  /\ ~Below(k)
                  /\ \A j \in 0 .. (k - 1) : Below(j)
    IN  IF Tie(k0) /\ k0 % 2 = 1 THEN k0 + 1 ELSE k0


(***************************************************************************)
(* State.                                                                  *)
(***************************************************************************)
VARIABLES
    args,           \* the configuration (cli arguments / live parameters)
    pc,             \* position of the offline / live render pipeline
    shape,          \* shape of the frequency grid: [h, w]
    exc,            \* the exception that ended the pipeline, or "none"
    oscs,           \* plan_schedule: the oscillator list, indexed from 0
    T,              \* plan_schedule: total duration (ms)
    n_total,        \* render_audio: number of output frames
    n_block,        \* render_audio: frames per block
    per_osc_gain,   \* render_audio: gain applied to every oscillator
    b,              \* render_audio: index of the next block
    current_active, \* render_audio: indices of the active oscillators
    next_osc,       \* render_audio: next oscillator to admit
    out,            \* render_audio: the accumulated output, per sample
    lut             \* render_audio: the kind of the waveform table built

VARIABLES
    waveform,       \* the waveform argument of render_audio
    lutBuilds,      \* number of _build_waveform_lut tables built, per kind
    calls,          \* number of plan_schedule / render_audio runs begun
    ref,            \* a finished run kept for comparison: input and result
    fade_ms         \* the fade_ms argument of render_audio

VARIABLES
    buffer,         \* AudioLooper.buffer: [gen, data], data indexed from 0
    pos,            \* AudioLooper.pos: the read cursor
    posGen,         \* the buffer (its gen) pos was last set or advanced for
    lock,           \* AudioLooper.lock: "free", or the thread holding it
    cb,             \* the audio callback: position and locals
    ctl,            \* the control thread in update_buffer: position and argument
    nUpdates,       \* number of update_buffer calls made
    live            \* AudioLooper.stream and what became of its device

VARIABLES
    enc             \* write_wav_int16_stereo: position, argument and file

VARIABLES
    lk,             \* a waveform table and a lookup in it
    caller,         \* who calls plan_schedule / render_audio, and how far it got
    eng             \* LiveEngine: the size of the image and the crop

looperVars == <<buffer, pos, posGen, lock, cb, ctl, nUpdates, live>>

renderVars == <<n_total, n_block, per_osc_gain, b, current_active, next_osc, out, lut>>

callVars == <<waveform, lutBuilds, calls, ref, fade_ms>>

pipeVars == <<args, pc, shape, exc, oscs, T, renderVars, callVars>>

\* the variables the render pipeline / the looper / the encoder leave alone
auxVars == <<lk, caller, eng>>

notPipe == <<looperVars, enc, auxVars>>

notLooper == <<pipeVars, enc, auxVars>>

notEnc == <<pipeVars, looperVars, auxVars>>

\* ... and the table lookup / the callers / the engine's crop
notLk == <<pipeVars, looperVars, enc, caller, eng>>

notCaller == <<looperVars, enc, lk, eng>>

notEng == <<pipeVars, looperVars, enc, lk, caller>>

(***************************************************************************)
(* image_proc.py                                                           *)
(***************************************************************************)
\* one row of the zigzag: range(w) on an even row, range(w-1, -1, -1) on an odd one
ZigzagRow(r, w) ==
    [k \in 1 .. w |-> IF r % 2 = 0 THEN <<r, k - 1>> ELSE <<r, w - k>>]

RECURSIVE ZigzagFrom(_, _, _)
ZigzagFrom(r, h, w) ==
    IF r >= h THEN <<>> ELSE ZigzagRow(r, w) \o ZigzagFrom(r + 1, h, w)

\* zigzag_indices(h, w): the (r, c) pairs in scan order
zigzag_indices(h, w) == ZigzagFrom(0, h, w)

\* compute_audio_image_shape_from_duration: [exc, w, h]. The division by
\* step_s raises ZeroDivisionError when step_ms is 0.
compute_audio_image_shape_from_duration(duration_ms, step_ms, sustain_ms, voices, ow, oh) ==
    IF step_ms = 0
    THEN [exc |-> "ZeroDivisionError", w |-> 0, h |-> 0]
    ELSE LET sweep_T == duration_ms - sustain_ms
             \* N = (sweep_T / step_s) - voices + 1 ; N = max(1, round(N))
             N == Max(1, Round(sweep_T - (voices - 1) * step_ms, step_ms))
             \* r = ow / oh ; height_f = sqrt(N / r) ; width_f = r * height_f
             height == Max(1, RoundSqrt(N * oh, ow))
             width == Max(1, RoundSqrt(N * ow, oh))
         IN  [exc |-> "none", w |-> width, h |-> height]

(***************************************************************************)
(* audio.py: plan_schedule                                                 *)
(***************************************************************************)
\* constant_power_pan(x_norm), x_norm = num / den: (cos(theta), sin(theta))
\* with theta = (pi / 2) * x_norm, kept symbolically
constant_power_pan(num, den) ==
    <<[fn |-> "cos", num |-> num, den |-> den], [fn |-> "sin", num |-> num, den |-> den]>>

\* the gain 1.0 of the mono pan cache
UnitGain == [fn |-> "one", num |-> 0, den |-> 1]

\* pan_cache[c], c in 0 .. w-1
pan_cache(c, w, stereo) ==
    IF stereo
    THEN constant_power_pan(c, IF w > 1 THEN w - 1 ELSE 1)
    ELSE <<UnitGain, UnitGain>>

\* MakeOsc with the lifetime one step too long: end = (i + voices + 1) * step_s
MakeOscLong(i, rc, w, step_ms, voices, stereo) ==
    [f |-> rc,
     start |-> i * step_ms,
     end |-> (i + voices + 1) * step_ms,
     pan_l |-> pan_cache(rc[2], w, stereo)[1],
     pan_r |-> pan_cache(rc[2], w, stereo)[2]]

\* the Osc created for the i-th entry (r, c) of the scan order
MakeOsc(i, rc, w, step_ms, voices, stereo) ==
    [f |-> rc,
     start |-> i * step_ms,
     end |-> (i + voices) * step_ms,
     pan_l |-> pan_cache(rc[2], w, stereo)[1],
     pan_r |-> pan_cache(rc[2], w, stereo)[2]]

\* plan_schedule(freqs, size, sr, step_ms, sustain_s, stereo, voices), freqs
\* of shape (fh, fw): [exc, oscs, T]. freqs[r, c] raises IndexError outside
\* the grid, and then nothing is returned.
plan_schedule(fh, fw, size, step_ms, sustain_ms, stereo, voices) ==
    LET h == size
        w == size
        N == fh * fw
        T_base == IF N > 0 THEN (N - 1 + voices) * step_ms ELSE 0
        order == zigzag_indices(h, w)
        inGrid(rc) == rc[1] < fh /\ rc[2] < fw
    IN  IF \E k \in 1 .. Len(order) : ~inGrid(order[k])
        THEN [exc |-> "IndexError", oscs |-> <<>>, T |-> 0]
        ELSE [exc |-> "none",
              oscs |-> [i \in 0 .. (Len(order) - 1) |->
                           MakeOsc(i, order[i + 1], w, step_ms, voices, stereo)],
              T |-> T_base + sustain_ms]

(***************************************************************************)
(* audio.py: _build_waveform_lut                                           *)
(***************************************************************************)
\* the kinds _build_waveform_lut knows
LutKinds == {"saw", "sine", "triangle", "square"}

\* waveform.lower(), on the strings of WaveformSet
Lower(s) == IF s = "Sine" THEN "sine" ELSE s

\* the table _build_waveform_lut(waveform) builds, by its kind; "unknown"
\* where it raises ValueError
LutKind(wf) == IF Lower(wf) \in LutKinds THEN Lower(wf) ELSE "unknown"

\* phase = np.linspace(0.0, 1.0, num=size, endpoint=False): entry k is the
\* value of the shape at phase k / size, kept as [kind, num, den]
BuildTable(kind, size) ==
    [k \in 0 .. (size - 1) |-> [kind |-> kind, num |-> k, den |-> size]]

\* np.clip(idx, lo, hi)
Clip(x, lo, hi) == IF x < lo THEN lo ELSE IF x > hi THEN hi ELSE x

\* LutIndex rounding to the nearest entry instead of taking the floor
LutIndexRounded(num, den, size) == Clip(RoundPos(num * size, den), 0, size - 1)

\* _waveform_from_lut: idx = np.floor(phase * size) clipped to
\* [0, size - 1], for the phase num / den >= 0
LutIndex(num, den, size) == Clip((num * size) \div den, 0, size - 1)

\* no table built yet
LkIdle == [pc |-> "idle", kind |-> "none", size |-> 0, table |-> <<>>,
           num |-> 0, den |-> 1, idx |-> 0, value |-> <<>>]

\* _build_waveform_lut(waveform, size)
BuildLut ==
    /\ lk.pc = "idle"
    /\ \E wf \in WaveformSet \cup LutKinds, size \in LutSizes :
          IF LutKind(wf) = "unknown"
          THEN lk' = [lk EXCEPT !.pc = "failed"]
          ELSE lk' = [lk EXCEPT !.pc = "built", !.kind = LutKind(wf),
                                !.size = size,
                                !.table = BuildTable(LutKind(wf), size)]

\* _waveform_from_lut(phase, lut) for one phase num / den of [0, 1]; np.mod
\* gives 1.0 on a tiny negative product, so 1.0 is among the phases
WaveformFromLut ==
    /\ lk.pc = "built"
    /\ \E den \in 1 .. MaxPhaseDen : \E num \in 0 .. den :
          LET idx == LutIndex(num, den, Cardinality(DOMAIN lk.table))
          IN  lk' = [lk EXCEPT !.pc = "looked", !.num = num, !.den = den,
                               !.idx = idx, !.value = lk.table[idx]]

(***************************************************************************)
(* audio.py: render_audio                                                  *)
(***************************************************************************)
\* start_samples[i] = np.round(start_s_arr[i] * sr)
start_sample(osc, sr) == RoundPos(osc.start * sr, 1000)

\* end_samples[i] = np.round(end_s_arr[i] * sr)
end_sample(osc, sr) == RoundPos(osc.end * sr, 1000)

\* FrameCount truncating instead of rounding up: int(T * sr)
FrameCountTruncated(T_ms, sr) == (T_ms * sr) \div 1000

\* n_total = int(math.ceil(T * sr))
FrameCount(T_ms, sr) == Ceil(T_ms * sr, 1000)

\* n_block = max(1, int(sr * (block_ms / 1000.0)))
BlockLen(sr, block_ms) == Max(1, (sr * block_ms) \div 1000)

\* blocks = int(math.ceil(n_total / n_block))
BlockCount(nt, nb) == Ceil(nt, nb)

\* per_osc_gain = 1.0 / math.sqrt(voices) * 0.95 if voices > 0 else 1.0,
\* kept as [pct, voices]: (pct / 100) / sqrt(voices)
PerOscGain(voices) ==
    IF voices > 0 THEN [pct |-> 95, voices |-> voices] ELSE [pct |-> 100, voices |-> 1]

\* Admit with an if for the while: one oscillator at most joins per block
AdmitOne(active, next, s1, os, sr) ==
    IF next < Cardinality(DOMAIN os) /\ start_sample(os[next], sr) < s1
    THEN [active |-> Append(active, next), next |-> next + 1]
    ELSE [active |-> active, next |-> next]

\* step 1 of a block: while next_osc < n_osc and start_samples[next_osc] < s1
RECURSIVE Admit(_, _, _, _, _)
Admit(active, next, s1, os, sr) ==
    IF next < Cardinality(DOMAIN os) /\ start_sample(os[next], sr) < s1
    THEN Admit(Append(active, next), next + 1, s1, os, sr)
    ELSE [active |-> active, next |-> next]

\* DropEnded dropping one sample too early: end_samples[i] > s0 + 1
DropEndedEarly(active, s0, os, sr) ==
    SelectSeq(active, LAMBDA i : end_sample(os[i], sr) > s0 + 1)

\* step 2 of a block: [i for i in current_active if end_samples[i] > s0]
DropEnded(active, s0, os, sr) ==
    SelectSeq(active, LAMBDA i : end_sample(os[i], sr) > s0)

\* active_mask without its upper bound: abs_idx >= start_act only
ActiveMaskNoEnd(osc, s, sr) == s >= start_sample(osc, sr)

\* active_mask[j, s]: abs_idx >= start_act and abs_idx < end_act
active_mask(osc, s, sr) == s >= start_sample(osc, sr) /\ s < end_sample(osc, sr)

\* nf = max(int(sr * (fade_ms / 1000.0)), 0)
FadeSamples(sr, fade) == IF fade <= 0 THEN 0 ELSE (sr * fade) \div 1000

\* no envelope applied: the signal is left as it is
NoEnvelope == [nfj |-> 0, m_in |-> FALSE, ds |-> 0, m_out |-> FALSE, de |-> 0]

\* Envelope without the clamp to half the span: nfj = nf
EnvelopeUnclamped(osc, s, sr, nf) ==
    LET ds == s - start_sample(osc, sr)
        de == end_sample(osc, sr) - s
    IN  IF nf <= 0 THEN NoEnvelope
        ELSE [nfj |-> nf,
              m_in |-> ds < nf, ds |-> IF ds < nf THEN ds ELSE 0,
              m_out |-> de <= nf, de |-> IF de <= nf THEN de ELSE 0]

\* the envelope of an oscillator at sample s: nf_local = min(nf, seg_len // 2),
\* no envelope when nf or nf_local is 0 or less; else the fade-in mask
\* ds < nfj with its ramp position ds and the fade-out mask de <= nfj with
\* its ramp position de (the factor 0.5 * (1 - cos(pi * d / nfj)) of each)
Envelope(osc, s, sr, nf) ==
    LET seg_len == end_sample(osc, sr) - start_sample(osc, sr)
        nfj == Min(nf, seg_len \div 2)
        ds == s - start_sample(osc, sr)
        de == end_sample(osc, sr) - s
    IN  IF nf <= 0 \/ nfj <= 0 THEN NoEnvelope
        ELSE [nfj |-> nfj,
              m_in |-> ds < nfj, ds |-> IF ds < nfj THEN ds ELSE 0,
              m_out |-> de <= nfj, de |-> IF de <= nfj THEN de ELSE 0]

\* what one block adds to the two channels of sample s: the signals of the
\* active oscillators summed in the order of current_active, each zeroed
\* outside its mask and shaped by its envelope, unpanned in mono (and the
\* right channel a copy of the left), times pan_l / pan_r in stereo. A sum
\* is kept as the list of its non-zero terms [osc, pan, env].
BlockSum(active, s, os, sr, mono, nf) ==
    LET heard == SelectSeq(active, LAMBDA i : active_mask(os[i], s, sr))
        bufL == [k \in 1 .. Len(heard) |->
                    [osc |-> heard[k],
                     pan |-> IF mono THEN UnitGain ELSE os[heard[k]].pan_l,
                     env |-> Envelope(os[heard[k]], s, sr, nf)]]
        bufR == [k \in 1 .. Len(heard) |->
                    [osc |-> heard[k], pan |-> os[heard[k]].pan_r,
                     env |-> Envelope(os[heard[k]], s, sr, nf)]]
    IN  <<bufL, IF mono THEN bufL ELSE bufR>>

\* outL[s0:s1] += bufL ; outR[s0:s1] += bufL if mono else bufR
Accumulate(frame, sum) == <<frame[1] \o sum[1], frame[2] \o sum[2]>>

(***************************************************************************)
(* The render pipeline: cli.main and LiveEngine.render_loop.               *)
(***************************************************************************)
Args ==
    [step_ms : StepMsSet, voices : VoicesSet, sustain_ms : SustainMsSet,
     sr : SampleRates, block_ms : BlockMsSet, stereo : BOOLEAN]

\* no run kept yet
NoRef == [set |-> FALSE, call |-> 0, input |-> <<>>, result |-> <<>>, other |-> FALSE]

PipeInit ==
    /\ args \in Args
    /\ pc = "start"
    /\ shape = [h |-> 0, w |-> 0]
    /\ exc = "none"
    /\ oscs = <<>>
    /\ T = 0
    /\ n_total = 0
    /\ n_block = 1
    /\ per_osc_gain = PerOscGain(1)
    /\ b = 0
    /\ current_active = <<>>
    /\ next_osc = 0
    /\ out = <<>>
    /\ lut = "none"
    /\ waveform \in WaveformSet
    /\ fade_ms \in FadeMsSet
    /\ lutBuilds = [k \in LutKinds |-> 0]
    /\ calls = 1
    /\ ref = NoRef

\* cli._compute_audio_image_shape with --duration-s: the grid shape comes
\* from compute_audio_image_shape_from_duration
ShapeFromDuration ==
    /\ pc = "start"
    /\ \E d \in DurationMsSet, o \in OrigSizes :
         LET res == compute_audio_image_shape_from_duration(
                        d, args.step_ms, args.sustain_ms, args.voices, o[1], o[2])
         IN  IF res.exc # "none"
             THEN /\ pc' = "failed"
                  /\ exc' = res.exc
                  /\ UNCHANGED shape
             ELSE /\ pc' = "shaped"
                  /\ shape' = [h |-> res.h, w |-> res.w]
                  /\ UNCHANGED exc
    /\ UNCHANGED <<args, oscs, T, renderVars, callVars>>

\* cli._compute_audio_image_shape without --duration-s: (size, size)
ShapeFromSize ==
    /\ pc = "start"
    /\ \E size \in 1 .. MaxDim : shape' = [h |-> size, w |-> size]
    /\ pc' = "shaped"
    /\ UNCHANGED <<args, exc, oscs, T, renderVars, callVars>>

\* LiveEngine._extract_crop: the grid is the crop, crop.h rows by crop.w columns
ShapeFromCrop ==
    /\ pc = "start"
    /\ \E h \in 1 .. MaxDim, w \in 1 .. MaxDim : shape' = [h |-> h, w |-> w]
    /\ pc' = "shaped"
    /\ UNCHANGED <<args, exc, oscs, T, renderVars, callVars>>

\* the call of plan_schedule: both callers pass size = the grid's width
PlanSchedule ==
    /\ pc = "shaped"
    /\ LET res == plan_schedule(shape.h, shape.w, shape.w, args.step_ms,
                                args.sustain_ms, args.stereo, args.voices)
       IN  IF res.exc # "none"
           THEN /\ pc' = "failed"
                /\ exc' = res.exc
                /\ UNCHANGED <<oscs, T>>
           ELSE /\ pc' = "planned"
                /\ oscs' = res.oscs
                /\ T' = res.T
                /\ UNCHANGED exc
    /\ UNCHANGED <<args, shape, renderVars, callVars>>

\* render_audio takes T apart from the oscillator list: a caller that
\* renders the schedule with a shorter duration, once
ShortenDuration ==
    /\ pc = "planned"
    /\ T = plan_schedule(shape.h, shape.w, shape.w, args.step_ms,
                         args.sustain_ms, args.stereo, args.voices).T
    /\ \E t \in {T - 1, T \div 2} :
          /\ t >= 1
          /\ T' = t
    /\ UNCHANGED <<args, pc, shape, exc, oscs, renderVars, callVars>>

\* render_audio up to its block loop, the block loop starting with the
\* active list active0 and the admission index next0. The buffers are
\* allocated (np.zeros raises ValueError on a negative length); an empty
\* oscillator list or an empty buffer is returned at once, before the
\* waveform is looked at; else the table is built, _build_waveform_lut
\* raising ValueError on an unknown kind.
RenderEnter(active0, next0) ==
    /\ pc = "planned"
    /\ LET nt == FrameCount(T, args.sr)
           early == Cardinality(DOMAIN oscs) = 0 \/ nt = 0
           kind == LutKind(waveform)
       IN  IF nt < 0 \/ (~early /\ kind = "unknown")
           THEN /\ pc' = "failed"
                /\ exc' = "ValueError"
                /\ UNCHANGED <<renderVars, lutBuilds>>
           ELSE /\ n_total' = nt
                /\ n_block' = BlockLen(args.sr, args.block_ms)
                /\ per_osc_gain' = PerOscGain(args.voices)
                /\ out' = [s \in 0 .. (nt - 1) |-> <<<<>>, <<>>>>]
                /\ b' = 0
                /\ current_active' = active0
                /\ next_osc' = next0
                /\ lut' = IF early THEN "none" ELSE kind
                /\ lutBuilds' = IF early THEN lutBuilds
                                ELSE [lutBuilds EXCEPT ![kind] = @ + 1]
                /\ pc' = IF early THEN "rendered" ELSE "rendering"
                /\ UNCHANGED exc
    /\ UNCHANGED <<args, shape, oscs, T, waveform, calls, ref, fade_ms>>

\* RenderStart with the active list and the admission index kept from the
\* render before, as if they outlived the call
RenderStartStale == RenderEnter(current_active, next_osc)

\* the entry of render_audio: current_active = [] and next_osc = 0
RenderStart == RenderEnter(<<>>, 0)

\* one iteration of the block loop of render_audio; the loop ends, and
\* render_audio returns, after the last block
RenderBlock ==
    /\ pc = "rendering"
    /\ b < BlockCount(n_total, n_block)
    /\ LET s0 == b * n_block
           s1 == Min(n_total, (b + 1) * n_block)
           adm == Admit(current_active, next_osc, s1, oscs, args.sr)
           act == DropEnded(adm.active, s0, oscs, args.sr)
       IN  /\ current_active' = act
           /\ next_osc' = adm.next
           /\ out' = [s \in DOMAIN out |->
                         IF s0 <= s /\ s < s1
                         THEN Accumulate(out[s],
                                         BlockSum(act, s, oscs, args.sr, ~args.stereo,
                                                  FadeSamples(args.sr, fade_ms)))
                         ELSE out[s]]
    /\ b' = b + 1
    /\ pc' = IF b + 1 >= BlockCount(n_total, n_block) THEN "rendered" ELSE "rendering"
    /\ UNCHANGED <<args, shape, exc, oscs, T, n_total, n_block, per_osc_gain, lut,
                   callVars>>

\* a render of the live session: the frequency grid handed to plan_schedule
ShapeOfGrid ==
    /\ pc = "start"
    /\ \E g \in GridShapes : shape' = [h |-> g[1], w |-> g[2]]
    /\ pc' = "shaped"
    /\ UNCHANGED <<args, exc, oscs, T, renderVars, callVars>>

\* the arguments of the run in progress
CallInput == [args |-> args, waveform |-> waveform, shape |-> shape]

\* what the finished run gave its caller: the exception, or the oscillator
\* list and duration plan_schedule returned and the buffer render_audio
\* returned (the frames, with the gain and the table they were made with)
CallResult ==
    [exc |-> exc,
     oscs |-> IF exc = "IndexError" THEN <<>> ELSE oscs,
     T |-> IF exc = "IndexError" THEN 0 ELSE T,
     buffer |-> IF pc = "rendered" THEN <<out, per_osc_gain, lut>> ELSE <<>>]

\* the session renders again (_regenerate_audio after a parameter edit):
\* the run that ended is over, its locals are not touched, and the next one
\* begins with its own arguments. The finished run may be kept in ref.
NextCall ==
    /\ pc \in {"rendered", "failed"}
    /\ calls < MaxCalls
    /\ calls' = calls + 1
    /\ \E a \in SessionArgs, wf \in WaveformSet :
          /\ args' = a
          /\ waveform' = wf
    /\ \E keep \in BOOLEAN :
          ref' = IF ~ref.set
                 THEN IF keep
                      THEN [set |-> TRUE, call |-> calls, input |-> CallInput,
                            result |-> CallResult, other |-> FALSE]
                      ELSE ref
                 ELSE [ref EXCEPT !.other = @ \/ (CallInput # ref.input)]
    /\ pc' = "start"
    /\ exc' = "none"
    /\ UNCHANGED <<shape, oscs, T, renderVars, lutBuilds, fade_ms>>

(***************************************************************************)
(* audio.py: write_wav_int16_stereo                                        *)
(***************************************************************************)
Abs(x) == IF x >= 0 THEN x ELSE -x

\* floor(x * num / den) for x, num >= 0 and den > 0, without forming x * num
MulDiv(x, num, den) == (x \div den) * num + ((x % den) * num) \div den

\* the shapes of an array handed to the encoder and their row widths:
\* (n,), (n, 1), (n, 2) and (n, 3)
EncKinds == {"1d", "nx1", "nx2", "nx3"}

RowWidth(kind) == CASE kind = "nx2" -> 2 [] kind = "nx3" -> 3 [] OTHER -> 1

\* the arrays data_lr of a shape: n rows, the values in C order, in
\* thousandths
EncodeInputs(kind, n) ==
    {[kind |-> kind, rows |-> n, vals |-> v] :
        v \in [1 .. (RowWidth(kind) * n) -> AmpSet]}

\* np.max(np.abs(data_lr))
RECURSIVE MaxAbs(_)
MaxAbs(vals) ==
    IF vals = <<>> THEN 0 ELSE Max(Abs(Head(vals)), MaxAbs(Tail(vals)))

\* peak = np.max(np.abs(data_lr)) if data_lr.size > 0 else 1.0
Peak(vals) == IF Len(vals) > 0 THEN MaxAbs(vals) ELSE 1000

\* Norm without the peak normalisation: the factor is always 1
NormNone(peak) == <<1, 1>>

\* Norm without the cap min(1.0, ...): every buffer is brought to 0.999
NormUncapped(peak) == IF peak = 0 THEN <<1, 1>> ELSE <<999, peak>>

\* norm = 1.0 if peak == 0 else min(1.0, 0.999 / peak), as <<num, den>>
Norm(peak) ==
    IF peak = 0 THEN <<1, 1>>
    ELSE IF 999 >= peak THEN <<1, 1>> ELSE <<999, peak>>

\* data_lr * norm * 32767.0 cut to an integer as astype does for a value
\* in range: toward zero
Scaled(v, norm) ==
    LET mag == MulDiv(Abs(v) * 32767, norm[1], norm[2] * 1000)
    IN  IF v >= 0 THEN mag ELSE -mag

\* astype(np.int16) of an integer outside [-32768, 32767] is not defined:
\* the cast wraps modulo 2^16 or saturates, with the build
Wrap16(x) == ((x + 32768) % 65536) - 32768

Saturate16(x) == Max(-32768, Min(32767, x))

\* no file written
NoFile == [nchannels |-> 0, sampwidth |-> 0, nframes |-> 0, samples |-> <<>>]

\* the encoder called with data_lr
EncStart(buf) ==
    [pc |-> "start", data_lr |-> buf, file |-> NoFile, exc |-> "none"]

\* the encoder in a run that does not encode
EncIdle == EncStart([kind |-> "nx2", rows |-> 0, vals |-> <<>>])

\* write_wav_int16_stereo: the samples are scaled and cast whatever the
\* shape of data_lr, and written as 2-channel 16-bit frames; wave counts
\* len(bytes) // 4 frames
WriteWav ==
    /\ enc.pc = "start"
    /\ LET vals == enc.data_lr.vals
           norm == Norm(Peak(vals))
           x(k) == Scaled(vals[k], norm)
           wild == {k \in 1 .. Len(vals) : x(k) < -32768 \/ x(k) > 32767}
       IN  \E cast \in [wild -> {"wrap", "saturate"}] :
              LET pcm == [k \in 1 .. Len(vals) |->
                             IF k \notin wild THEN x(k)
                             ELSE IF cast[k] = "wrap" THEN Wrap16(x(k))
                                  ELSE Saturate16(x(k))]
              IN  enc' = [enc EXCEPT
                             !.pc = "written",
                             !.file = [nchannels |-> 2, sampwidth |-> 2,
                                       nframes |-> Len(vals) \div 2,
                                       samples |-> pcm]]
    /\ UNCHANGED notEnc

(***************************************************************************)
(* live_tui.py: AudioLooper                                                *)
(***************************************************************************)
\* one sample: generation of the array it belongs to, frame index, channel
\* and dtype
Sample(g, k, ch, dtype) == [g |-> g, k |-> k, ch |-> ch, dtype |-> dtype]

\* a sample of np.zeros(..., dtype=np.float32) / of outdata.fill(0)
ZeroSample == Sample(0, 0, 0, "float32")

ZeroFrame == <<ZeroSample, ZeroSample>>

\* a frame of outdata the callback has not written
Unwritten == <<Sample(0, 0, 0, "unwritten"), Sample(0, 0, 0, "unwritten")>>

\* an array handed to update_buffer: n frames, of shape (n,), (n, 1) or (n, 2)
NewArray(g, n, kind) ==
    [gen |-> g, kind |-> kind,
     data |-> [k \in 0 .. (n - 1) |->
                  IF kind = "nx2"
                  THEN <<Sample(g, k, 0, "float64"), Sample(g, k, 1, "float64")>>
                  ELSE <<Sample(g, k, 0, "float64")>>]]

\* .astype(np.float32)
AsFloat32(frame) == [c \in DOMAIN frame |-> [frame[c] EXCEPT !.dtype = "float32"]]

\* update_buffer's conversion: np.stack([b, b], axis=-1) of a 1-D array,
\* np.repeat(b, 2, axis=1) of an (n, 1) array, then .astype(np.float32)
ToStereoFloat32(arr) ==
    [gen |-> arr.gen,
     data |-> [k \in DOMAIN arr.data |->
                  AsFloat32(IF arr.kind = "nx2"
                            THEN arr.data[k]
                            ELSE <<arr.data[k][1], arr.data[k][1]>>)]]

\* buf.shape[0]
NumFrames(buf) == Cardinality(DOMAIN buf.data)

\* a Python slice bound on a sequence of length n
SliceBound(i, n) == IF i < 0 THEN Max(0, n + i) ELSE Min(i, n)

\* outdata[ta:tb] = buf[sa:sb] (both channels): [exc, outdata, reads].
\* numpy broadcasts a source of length 1 and raises ValueError on any other
\* length mismatch.
AssignSlice(od, ta, tb, buf, sa, sb) ==
    LET nf == Cardinality(DOMAIN od)
        n == NumFrames(buf)
        tLo == SliceBound(ta, nf)
        tLen == Max(0, SliceBound(tb, nf) - tLo)
        sLo == SliceBound(sa, n)
        sLen == Max(0, SliceBound(sb, n) - sLo)
        src(k) == IF sLen = 1 THEN sLo ELSE sLo + (k - tLo)
    IN  IF tLen # sLen /\ sLen # 1
        THEN [exc |-> "ValueError", outdata |-> od]
        ELSE [exc |-> "none",
              outdata |-> [k \in DOMAIN od |->
                              IF tLo <= k /\ k < tLo + tLen
                              THEN buf.data[src(k)] ELSE od[k]]]

\* a list of slice assignments [ta, tb, sa, sb], in order, up to the first
\* that raises
RECURSIVE AssignAll(_, _, _)
AssignAll(od, copies, buf) ==
    IF copies = <<>> THEN [exc |-> "none", outdata |-> od]
    ELSE LET c == Head(copies)
             r == AssignSlice(od, c.ta, c.tb, buf, c.sa, c.sb)
         IN  IF r.exc # "none" THEN r ELSE AssignAll(r.outdata, Tail(copies), buf)

Copy(ta, tb, sa, sb) == [ta |-> ta, tb |-> tb, sa |-> sa, sb |-> sb]

\* CallbackCopies without the loop over the whole buffer: a request longer
\* than the buffer wraps once only
CallbackCopiesOneWrap(n_samples, p, frames) ==
    LET remaining == n_samples - p
        part1 == remaining
        rest == (frames - part1) % n_samples
    IN  IF frames <= remaining
        THEN <<Copy(0, frames, p, p + frames)>>
        ELSE <<Copy(0, part1, p, n_samples)>>
             \o (IF rest > 0 THEN <<Copy(part1, part1 + rest, 0, rest)>> ELSE <<>>)

\* the slice assignments of _callback for a buffer of n_samples frames, in
\* order: the single copy when frames <= remaining, else the end of the
\* buffer, the whole buffer `loops` times and its first `rest` frames
CallbackCopies(n_samples, p, frames) ==
    LET remaining == n_samples - p
        part1 == remaining
        part2 == frames - part1
        loops == part2 \div n_samples
        rest == part2 % n_samples
    IN  IF frames <= remaining
        THEN <<Copy(0, frames, p, p + frames)>>
        ELSE <<Copy(0, part1, p, n_samples)>>
             \o [i \in 1 .. loops |->
                    Copy(part1 + (i - 1) * n_samples, part1 + i * n_samples,
                         0, n_samples)]
             \o (IF rest > 0
                 THEN <<Copy(part1 + loops * n_samples,
                             part1 + loops * n_samples + rest, 0, rest)>>
                 ELSE <<>>)

\* the value _callback stores in self.pos
CallbackNextPos(n_samples, p, frames) ==
    IF frames <= n_samples - p
    THEN (p + frames) % n_samples
    ELSE (frames - (n_samples - p)) % n_samples

\* the read-and-advance of _callback for a non-empty buffer (lines 76-107):
\* [exc, outdata, pos]; an exception leaves self.pos as it was
CallbackCopy(buf, p, frames, od) ==
    LET r == AssignAll(od, CallbackCopies(NumFrames(buf), p, frames), buf)
    IN  [exc |-> r.exc, outdata |-> r.outdata,
         pos |-> IF r.exc = "none"
                 THEN CallbackNextPos(NumFrames(buf), p, frames) ELSE p]

\* the callback between two invocations
CbIdle == [pc |-> "idle", frames |-> 0, buf |-> [gen |-> 0, data |-> <<>>],
           p |-> 0, pGen |-> 0, outdata |-> <<>>, exc |-> "none"]

\* the control thread outside update_buffer
CtlIdle == [pc |-> "idle", new_buffer |-> [gen |-> 0, data |-> <<>>]]

\* AudioLooper.__init__: a one-frame silent buffer, cursor 0, lock free
LooperInit ==
    /\ buffer = [gen |-> 0, data |-> [k \in 0 .. 0 |-> ZeroFrame]]
    /\ pos = 0
    /\ posGen = 0
    /\ lock = "free"
    /\ cb = CbIdle
    /\ ctl = CtlIdle
    /\ nUpdates = 0
    /\ live = [stream |-> "none", opens |-> 0, refused |-> FALSE,
               stopped |-> FALSE, exc |-> "none", status |-> "none", fails |-> 0]

\* OpenStream swallowing the error: the acquisition can be tried again
OpenStreamRetry ==
    /\ live.stream = "none"
    /\ live.exc = "none"
    /\ live.opens < 2
    /\ \E ok \in BOOLEAN :
          live' = IF ok
                  THEN [live EXCEPT !.stream = "open", !.opens = @ + 1]
                  ELSE [live EXCEPT !.opens = @ + 1, !.refused = TRUE]
    /\ UNCHANGED <<buffer, pos, posGen, lock, cb, ctl, nUpdates>>

\* AudioLooper.__init__: self.stream = sd.OutputStream(...) opens the output
\* device, or raises PortAudioError when the device cannot be had; the
\* exception leaves __init__ and tui_main, which catch nothing
OpenStream ==
    /\ live.stream = "none"
    /\ live.exc = "none"
    /\ \E ok \in BOOLEAN :
          live' = IF ok
                  THEN [live EXCEPT !.stream = "open", !.opens = @ + 1]
                  ELSE [live EXCEPT !.opens = @ + 1, !.refused = TRUE,
                                    !.exc = "PortAudioError"]
    /\ UNCHANGED <<buffer, pos, posGen, lock, cb, ctl, nUpdates>>

\* AudioLooper.start: self.stream.start(), the device begins to invoke the
\* callback
LooperStart ==
    /\ live.stream = "open"
    /\ ctl.pc = "idle"
    /\ live' = [live EXCEPT !.stream = "active", !.stopped = FALSE]
    /\ UNCHANGED <<buffer, pos, posGen, lock, cb, ctl, nUpdates>>

\* AudioLooper.stop: self.stream.stop() returns once the callback in
\* progress has ended; the stream is stopped and stays open (nothing calls
\* self.stream.close())
LooperStop ==
    /\ live.stream = "active"
    /\ ctl.pc = "idle"
    /\ cb.pc = "idle"
    /\ live' = [live EXCEPT !.stream = "open", !.stopped = TRUE]
    /\ UNCHANGED <<buffer, pos, posGen, lock, cb, ctl, nUpdates>>

\* the output device invokes _callback(outdata, frames, ...)
CallbackInvoke ==
    /\ live.stream = "active"
    /\ cb.pc = "idle"
    /\ \E frames \in 0 .. MaxFrames :
         cb' = [CbIdle EXCEPT !.pc = "acquire", !.frames = frames,
                              !.outdata = [k \in 0 .. (frames - 1) |-> Unwritten]]
    /\ UNCHANGED <<buffer, pos, posGen, lock, ctl, nUpdates, live>>

\* _callback: with self.lock (entry)
CallbackAcquire ==
    /\ cb.pc = "acquire"
    /\ lock = "free"
    /\ lock' = "callback"
    /\ cb' = [cb EXCEPT !.pc = "read_buffer"]
    /\ UNCHANGED <<buffer, pos, posGen, ctl, nUpdates, live>>

\* CallbackReadBuffer returning on an empty buffer without outdata.fill(0)
CallbackReadBufferNoFill ==
    /\ cb.pc = "read_buffer"
    /\ IF NumFrames(buffer) = 0
       THEN cb' = [cb EXCEPT !.pc = "release", !.buf = buffer]
       ELSE cb' = [cb EXCEPT !.pc = "read_pos", !.buf = buffer]
    /\ UNCHANGED <<buffer, pos, posGen, lock, ctl, nUpdates, live>>

\* _callback: buf = self.buffer; an empty buffer gives silence and returns
CallbackReadBuffer ==
    /\ cb.pc = "read_buffer"
    /\ IF NumFrames(buffer) = 0
       THEN cb' = [cb EXCEPT !.pc = "release", !.buf = buffer,
                             !.outdata = [k \in DOMAIN cb.outdata |-> ZeroFrame]]
       ELSE cb' = [cb EXCEPT !.pc = "read_pos", !.buf = buffer]
    /\ UNCHANGED <<buffer, pos, posGen, lock, ctl, nUpdates, live>>

\* _callback: n_samples = buf.shape[0]; p = self.pos
CallbackReadPos ==
    /\ cb.pc = "read_pos"
    /\ cb' = [cb EXCEPT !.pc = "copy", !.p = pos, !.pGen = posGen]
    /\ UNCHANGED <<buffer, pos, posGen, lock, ctl, nUpdates, live>>

\* _callback: the copy into outdata and the advance of self.pos
CallbackAdvance ==
    /\ cb.pc = "copy"
    /\ LET r == CallbackCopy(cb.buf, cb.p, cb.frames, cb.outdata)
       IN  /\ cb' = [cb EXCEPT !.pc = "release", !.outdata = r.outdata, !.exc = r.exc]
           /\ pos' = r.pos
           /\ posGen' = IF r.exc = "none" THEN cb.buf.gen ELSE posGen
    /\ UNCHANGED <<buffer, lock, ctl, nUpdates, live>>

\* CallbackRelease returning with the lock still held
CallbackReturnLocked ==
    /\ cb.pc = "release"
    /\ cb' = CbIdle
    /\ UNCHANGED <<buffer, pos, posGen, lock, ctl, nUpdates, live>>

\* _callback: the end of the with block, and the return
CallbackRelease ==
    /\ cb.pc = "release"
    /\ lock' = "free"
    /\ cb' = CbIdle
    /\ UNCHANGED <<buffer, pos, posGen, ctl, nUpdates, live>>

\* the control thread calls update_buffer(new_buffer)
UpdateCall ==
    /\ live.stream # "none"
    /\ ctl.pc = "idle"
    /\ nUpdates < MaxUpdates
    /\ \E n \in 0 .. MaxBuf, kind \in {"1d", "nx1", "nx2"} :
         ctl' = [pc |-> "acquire", new_buffer |-> NewArray(nUpdates + 1, n, kind)]
    /\ nUpdates' = nUpdates + 1
    /\ UNCHANGED <<buffer, pos, posGen, lock, cb, live>>

\* UpdateAcquire without the lock: update_buffer does not wait for it
UpdateAcquireNoLock ==
    /\ ctl.pc = "acquire"
    /\ ctl' = [ctl EXCEPT !.pc = "set_buffer"]
    /\ UNCHANGED <<buffer, pos, posGen, lock, cb, nUpdates, live>>

\* update_buffer: with self.lock (entry)
UpdateAcquire ==
    /\ ctl.pc = "acquire"
    /\ lock = "free"
    /\ lock' = "control"
    /\ ctl' = [ctl EXCEPT !.pc = "set_buffer"]
    /\ UNCHANGED <<buffer, pos, posGen, cb, nUpdates, live>>

\* update_buffer: the conversion and self.buffer = new_buffer.astype(np.float32)
UpdateSetBuffer ==
    /\ ctl.pc = "set_buffer"
    /\ buffer' = ToStereoFloat32(ctl.new_buffer)
    /\ ctl' = [ctl EXCEPT !.pc = "set_pos"]
    /\ UNCHANGED <<pos, posGen, lock, cb, nUpdates, live>>

\* UpdateSetPos without the reset: the cursor keeps its value
UpdateSetPosKept ==
    /\ ctl.pc = "set_pos"
    /\ ctl' = [ctl EXCEPT !.pc = "release"]
    /\ UNCHANGED <<buffer, pos, posGen, lock, cb, nUpdates, live>>

\* update_buffer: self.pos = 0
UpdateSetPos ==
    /\ ctl.pc = "set_pos"
    /\ pos' = 0
    /\ posGen' = buffer.gen
    /\ ctl' = [ctl EXCEPT !.pc = "release"]
    /\ UNCHANGED <<buffer, lock, cb, nUpdates, live>>

\* update_buffer: the end of the with block, and the return; a caller
\* _regenerate_audio then returns "Audio regen OK"
UpdateRelease ==
    /\ ctl.pc = "release"
    /\ lock' = "free"
    /\ ctl' = CtlIdle
    /\ live' = [live EXCEPT !.status = "Audio regen OK"]
    /\ UNCHANGED <<buffer, pos, posGen, cb, nUpdates>>

\* RegenerateFails replacing the sound by an empty buffer
RegenerateFailsClears ==
    /\ live.stream # "none"
    /\ ctl.pc = "idle"
    /\ live.fails < MaxUpdates
    /\ live' = [live EXCEPT !.status = "Erreur rendu audio", !.fails = @ + 1]
    /\ buffer' = [gen |-> buffer.gen, data |-> <<>>]
    /\ pos' = 0
    /\ UNCHANGED <<posGen, lock, cb, ctl, nUpdates>>

\* _regenerate_audio when engine.render_loop() raises: the except clause
\* returns the error as the status, update_buffer is not reached
RegenerateFails ==
    /\ live.stream # "none"
    /\ ctl.pc = "idle"
    /\ live.fails < MaxUpdates
    /\ live' = [live EXCEPT !.status = "Erreur rendu audio", !.fails = @ + 1]
    /\ UNCHANGED <<buffer, pos, posGen, lock, cb, ctl, nUpdates>>

(***************************************************************************)
(* live_core.py: Crop and the crop of LiveEngine                           *)
(***************************************************************************)
Crop(x, y, w, h) == [x |-> x, y |-> y, w |-> w, h |-> h]

\* clamp without the two shrinking ifs: the size is only raised to 1
clampNoShrink(c, W, H) ==
    Crop(Max(0, Min(c.x, W - 1)), Max(0, Min(c.y, H - 1)), Max(1, c.w), Max(1, c.h))

\* Crop.clamp(W, H)
clamp(c, W, H) ==
    LET x == Max(0, Min(c.x, W - 1))
        y == Max(0, Min(c.y, H - 1))
        w == Max(1, c.w)
        h == Max(1, c.h)
    IN  Crop(x, y, IF x + w > W THEN W - x ELSE w, IF y + h > H THEN H - y ELSE h)

\* the side of the crop LiveEngine.__init__ starts with
DefaultCropSize == 16

\* LiveEngine.__init__ on an image of W x H without a crop argument; req is
\* the crop asked for, crop the crop kept
EngineInit(W, H) ==
    LET s == DefaultCropSize
        c == Crop((W \div 2) - (s \div 2), (H \div 2) - (s \div 2), s, s)
    IN  [W |-> W, H |-> H, req |-> c, crop |-> clamp(c, W, H)]

\* LiveEngine.set_crop(x, y, w, h)
SetCrop ==
    \E x \in CropArgs, y \in CropArgs, w \in CropArgs, h \in CropArgs :
        eng' = [eng EXCEPT !.req = Crop(x, y, w, h),
                           !.crop = clamp(Crop(x, y, w, h), eng.W, eng.H)]

\* LiveEngine.set_center_crop(w, h)
SetCenterCrop ==
    \E w \in CropArgs, h \in CropArgs :
        LET cx == eng.W \div 2
            cy == eng.H \div 2
            c == Crop(cx - (w \div 2), cy - (h \div 2), w, h)
        IN  eng' = [eng EXCEPT !.req = c, !.crop = clamp(c, eng.W, eng.H)]

(***************************************************************************)
(* cli.main and LiveEngine.render_loop: the calls into audio.py            *)
(***************************************************************************)
Callers == {"cli.main", "render_loop"}

\* the parameters of plan_schedule, all without a default
PlanScheduleParams ==
    {"freqs", "size", "sr", "step_ms", "sustain_s", "stereo", "voices"}

\* the parameters of render_audio without a default, and with one
RenderAudioRequired ==
    {"oscs", "T", "sr", "block_ms", "mono", "waveform", "fade_ms", "voices"}

RenderAudioOptional == {"tqdm_desc"}

\* the keywords a caller passes to plan_schedule
PlanScheduleCall(who) ==
    {"freqs", "size", "sr", "step_ms", "sustain_s", "stereo", "voices", "amps"}

\* the keywords a caller passes to render_audio
RenderAudioCall(who) ==
    IF who = "cli.main"
    THEN {"oscs", "sr", "block_ms", "fade_ms", "waveform"}
    ELSE {"oscs", "sr", "block_ms", "fade_ms", "waveform", "tqdm_desc", "use_tqdm"}

\* Python's binding of a keyword call: TypeError on an unexpected keyword
\* and on a missing required parameter
Bind(required, optional, passed) ==
    IF passed \subseteq (required \cup optional) /\ required \subseteq passed
    THEN "none"
    ELSE "TypeError"

\* the caller's call of plan_schedule: the arguments are bound, then the
\* body runs
CallPlanSchedule ==
    /\ caller \in Callers
    /\ pc = "shaped"
    /\ IF Bind(PlanScheduleParams, {}, PlanScheduleCall(caller)) = "none"
       THEN PlanSchedule
       ELSE /\ pc' = "failed"
            /\ exc' = "TypeError"
            /\ UNCHANGED <<args, shape, oscs, T, renderVars, callVars>>

\* the caller's call of render_audio
CallRenderAudio ==
    /\ caller \in Callers
    /\ pc = "planned"
    /\ IF Bind(RenderAudioRequired, RenderAudioOptional, RenderAudioCall(caller)) = "none"
       THEN RenderStart
       ELSE /\ pc' = "failed"
            /\ exc' = "TypeError"
            /\ UNCHANGED <<args, shape, oscs, T, renderVars, callVars>>

\* outside the table lookup, the callers' runs and the engine
AuxInit ==
    /\ lk = LkIdle
    /\ caller = "api"
    /\ eng = EngineInit(1, 1)

(***************************************************************************)
(* Specifications.                                                         *)
(***************************************************************************)
vars == <<pipeVars, looperVars, enc, auxVars>>

Init ==
    /\ waveform = DefaultWaveform
    /\ fade_ms = DefaultFadeMs
    /\ enc = EncIdle
    /\ PipeInit
    /\ LooperInit
    /\ AuxInit

\* the render pipeline, from the configuration to the rendered buffer
Next ==
    \/ ShapeFromDuration /\ UNCHANGED notPipe
    \/ ShapeFromSize /\ UNCHANGED notPipe
    \/ ShapeFromCrop /\ UNCHANGED notPipe
    \/ PlanSchedule /\ UNCHANGED notPipe
    \/ RenderStart /\ UNCHANGED notPipe
    \/ RenderBlock /\ UNCHANGED notPipe

Spec == Init /\ [][Next]_vars

\* renders with a fade of any length, of the planned schedule or of a
\* shorter duration
EnvInit ==
    /\ args \in EnvArgs
    /\ waveform = DefaultWaveform
    /\ enc = EncIdle
    /\ PipeInit
    /\ LooperInit
    /\ AuxInit

EnvNext ==
    \/ ShapeFromCrop /\ UNCHANGED notPipe
    \/ PlanSchedule /\ UNCHANGED notPipe
    \/ ShortenDuration /\ UNCHANGED notPipe
    \/ RenderStart /\ UNCHANGED notPipe
    \/ RenderBlock /\ UNCHANGED notPipe

EnvSpec == EnvInit /\ [][EnvNext]_vars

\* a waveform table built and looked up
LutInit ==
    /\ args = [step_ms |-> 1, voices |-> 1, sustain_ms |-> 0, sr |-> 1000,
               block_ms |-> 0, stereo |-> TRUE]
    /\ waveform = DefaultWaveform
    /\ fade_ms = DefaultFadeMs
    /\ enc = EncIdle
    /\ PipeInit
    /\ LooperInit
    /\ AuxInit

LutNext ==
    \/ BuildLut /\ UNCHANGED notLk
    \/ WaveformFromLut /\ UNCHANGED notLk

LutSpec == LutInit /\ [][LutNext]_vars

\* the engine's crop, from construction on
CropInit ==
    /\ args = [step_ms |-> 1, voices |-> 1, sustain_ms |-> 0, sr |-> 1000,
               block_ms |-> 0, stereo |-> TRUE]
    /\ waveform = DefaultWaveform
    /\ fade_ms = DefaultFadeMs
    /\ enc = EncIdle
    /\ PipeInit
    /\ LooperInit
    /\ lk = LkIdle
    /\ caller = "api"
    /\ \E W \in ImageDims, H \in ImageDims : eng = EngineInit(W, H)

CropNext ==
    \/ SetCrop /\ UNCHANGED notEng
    \/ SetCenterCrop /\ UNCHANGED notEng

CropSpec == CropInit /\ [][CropNext]_vars

\* a run of cli.main (the grid from --size or --duration-s) or of
\* LiveEngine.render_loop (the grid from the crop), as the callers make it
CallerInit ==
    /\ waveform = DefaultWaveform
    /\ fade_ms = DefaultFadeMs
    /\ enc = EncIdle
    /\ PipeInit
    /\ LooperInit
    /\ lk = LkIdle
    /\ caller \in Callers
    /\ eng = EngineInit(1, 1)

CallerNext ==
    \/ caller = "cli.main" /\ ShapeFromSize /\ UNCHANGED <<notPipe>>
    \/ caller = "cli.main" /\ ShapeFromDuration /\ UNCHANGED <<notPipe>>
    \/ caller = "render_loop" /\ ShapeFromCrop /\ UNCHANGED <<notPipe>>
    \/ CallPlanSchedule /\ UNCHANGED <<notPipe>>

CallerSpec == CallerInit /\ [][CallerNext]_vars

\* the live loop: the audio callback against the control thread
LoopInit ==
    /\ args = [step_ms |-> 1, voices |-> 1, sustain_ms |-> 0, sr |-> 1000,
               block_ms |-> 0, stereo |-> TRUE]
    /\ waveform = DefaultWaveform
    /\ fade_ms = DefaultFadeMs
    /\ enc = EncIdle
    /\ LooperInit
    /\ AuxInit
    /\ PipeInit

LoopNext ==
    \/ OpenStream /\ UNCHANGED notLooper
    \/ LooperStart /\ UNCHANGED notLooper
    \/ LooperStop /\ UNCHANGED notLooper
    \/ CallbackInvoke /\ UNCHANGED notLooper
    \/ CallbackAcquire /\ UNCHANGED notLooper
    \/ CallbackReadBuffer /\ UNCHANGED notLooper
    \/ CallbackReadPos /\ UNCHANGED notLooper
    \/ CallbackAdvance /\ UNCHANGED notLooper
    \/ CallbackRelease /\ UNCHANGED notLooper
    \/ UpdateCall /\ UNCHANGED notLooper
    \/ UpdateAcquire /\ UNCHANGED notLooper
    \/ UpdateSetBuffer /\ UNCHANGED notLooper
    \/ UpdateSetPos /\ UNCHANGED notLooper
    \/ UpdateRelease /\ UNCHANGED notLooper
    \/ RegenerateFails /\ UNCHANGED notLooper

LoopSpec == LoopInit /\ [][LoopNext]_vars

\* a step of the thread that holds the lock, inside its with block, the
\* copy of the callback apart; the lock lets one thread at a time be there
InsideStep ==
    \/ CallbackReadBuffer /\ UNCHANGED notLooper
    \/ CallbackReadPos /\ UNCHANGED notLooper
    \/ CallbackRelease /\ UNCHANGED notLooper
    \/ UpdateSetBuffer /\ UNCHANGED notLooper
    \/ UpdateSetPos /\ UNCHANGED notLooper
    \/ UpdateRelease /\ UNCHANGED notLooper

\* weak fairness of the copy of the callback, WF_vars(CallbackAdvance) with
\* its ENABLED written out: the step is enabled exactly when cb.pc = "copy"
AdvanceFairness ==
    \/ []<>(cb.pc # "copy")
    \/ []<><<CallbackAdvance /\ UNCHANGED notLooper>>_vars

\* the live loop under fair scheduling: the thread inside a with block
\* goes on, and a thread waiting for the lock gets it when the lock is free
\* again and again
LoopFairness ==
    /\ WF_vars(InsideStep)
    /\ AdvanceFairness
    /\ SF_vars(CallbackAcquire /\ UNCHANGED notLooper)
    /\ SF_vars(UpdateAcquire /\ UNCHANGED notLooper)

LoopFairSpec == LoopSpec /\ LoopFairness

\* a live session: plan_schedule and render_audio run again and again in
\* one process, on grids and arguments that change from run to run
SessionInit ==
    /\ args \in SessionArgs
    /\ fade_ms = DefaultFadeMs
    /\ enc = EncIdle
    /\ PipeInit
    /\ LooperInit
    /\ AuxInit

SessionNext ==
    \/ ShapeOfGrid /\ UNCHANGED notPipe
    \/ PlanSchedule /\ UNCHANGED notPipe
    \/ RenderStart /\ UNCHANGED notPipe
    \/ RenderBlock /\ UNCHANGED notPipe
    \/ NextCall /\ UNCHANGED notPipe

SessionSpec == SessionInit /\ [][SessionNext]_vars

\* the wav encoder on arrays of every shape of EncKinds
EncInit ==
    /\ args = [step_ms |-> 1, voices |-> 1, sustain_ms |-> 0, sr |-> 1000,
               block_ms |-> 0, stereo |-> TRUE]
    /\ waveform = DefaultWaveform
    /\ fade_ms = DefaultFadeMs
    /\ PipeInit
    /\ LooperInit
    /\ AuxInit
    /\ \E kind \in EncKinds, n \in 0 .. MaxEncFrames :
          \E buf \in EncodeInputs(kind, n) : enc = EncStart(buf)

EncNext == WriteWav

EncSpec == EncInit /\ [][EncNext]_vars

(***************************************************************************)
(* Properties of the scheduler and the renderer.                           *)
(***************************************************************************)
\* plan_schedule has returned its oscillator list and duration
Scheduled ==
    \/ pc \in {"planned", "rendering", "rendered"}
    \/ pc = "failed" /\ exc = "ValueError"

\* number of oscillators of the schedule
NumOscs == Cardinality(DOMAIN oscs)

\* the oscillators with start <= t < end at the instant t = s / sr of sample s
ActiveAt(s) ==
    {i \in DOMAIN oscs :
        /\ oscs[i].start * args.sr <= 1000 * s
        /\ 1000 * s < oscs[i].end * args.sr}

\* sample s lies in the sweep interior: (voices-1) * step_s <= s / sr < N * step_s
InSweepInterior(s) ==
    /\ (args.voices - 1) * args.step_ms * args.sr <= 1000 * s
    /\ 1000 * s < NumOscs * args.step_ms * args.sr

\* the sample instants up to the end of the last oscillator
SweepSamples == 0 .. Ceil((NumOscs + args.voices) * args.step_ms * args.sr, 1000)

\* the oscillators whose rounded sample window [start_sample, end_sample)
\* holds sample s: those render_audio's mask lets sound there
SoundingAt(s) == {i \in DOMAIN oscs : active_mask(oscs[i], s, args.sr)}

\* C1: sliding window. For a schedule of N > voices >= 1 oscillators with
\* step_ms > 0, exactly `voices` oscillators satisfy start <= t < end at
\* every sample instant of the sweep interior, and never more than `voices`
\* at any instant; nor do more than `voices` rounded sample windows of
\* render_audio ever hold the same sample.
C1_SlidingWindow ==
    (Scheduled /\ NumOscs > args.voices /\ args.voices >= 1 /\ args.step_ms > 0)
        => \A s \in SweepSamples :
              /\ Cardinality(ActiveAt(s)) <= args.voices
              /\ InSweepInterior(s) => Cardinality(ActiveAt(s)) = args.voices
              /\ Cardinality(SoundingAt(s)) <= args.voices

\* C1 witness: a schedule with 2 <= voices < N and a fractional number of
\* samples per step, and an interior sample with `voices` active oscillators
C1_Witness ==
    /\ Scheduled
    /\ NumOscs > args.voices
    /\ args.voices >= 2
    /\ args.step_ms > 0
    /\ (args.step_ms * args.sr) % 1000 # 0
    /\ \E s \in SweepSamples :
          InSweepInterior(s) /\ s > 0 /\ Cardinality(ActiveAt(s)) = args.voices

\* C2 (as claimed): oscillator i has start = i * step_s and
\* end = (i + voices) * step_s, so all lifetimes are voices * step_s, start
\* times do not decrease in scan order and end > start for every oscillator.
C2_OscillatorWindows ==
    (Scheduled /\ args.step_ms > 0)
        => \A i \in DOMAIN oscs :
              /\ oscs[i].start = i * args.step_ms
              /\ oscs[i].end = (i + args.voices) * args.step_ms
              /\ oscs[i].end - oscs[i].start = args.voices * args.step_ms
              /\ i > 0 => oscs[i - 1].start <= oscs[i].start
              /\ oscs[i].end > oscs[i].start

\* C3: plan_schedule returns T = (N - 1 + voices) * step_s + sustain_s for a
\* grid of N >= 1 cells, and the buffer render_audio returns for that T has
\* exactly ceil(T * sr) frames of 2 channels.
C3_DurationAndFrames ==
    /\ Scheduled =>
          T = (shape.h * shape.w - 1 + args.voices) * args.step_ms + args.sustain_ms
    /\ pc = "rendered" =>
          LET frames == Cardinality(DOMAIN out)
          IN  /\ DOMAIN out = 0 .. (frames - 1)
              /\ frames * 1000 >= T * args.sr
              /\ (frames - 1) * 1000 < T * args.sr
              /\ \A s \in DOMAIN out : Len(out[s]) = 2

\* C3 witness: the 2x2 grid with voices = 2 and no sustain is rendered:
\* 4 oscillators, T = 5 steps, and T * sr / 1000 frames
C3_Witness ==
    /\ pc = "rendered"
    /\ shape = [h |-> 2, w |-> 2]
    /\ args.voices = 2
    /\ args.sustain_ms = 0
    /\ args.step_ms = 2
    /\ args.sr = 1000
    /\ NumOscs = 4
    /\ T = 10
    /\ Cardinality(DOMAIN out) = 10

\* the i-th cell of a grid of width w in boustrophedon order
BoustrophedonCell(i, w) ==
    LET r == i \div w
        k == i % w
    IN  <<r, IF r % 2 = 0 THEN k ELSE w - 1 - k>>

\* C4 (as claimed): for an H x W grid plan_schedule reads no cell out of
\* bounds and produces exactly H * W oscillators, oscillator i carrying the
\* frequency of the i-th cell in boustrophedon order.
C4_OneOscPerCell ==
    /\ exc # "IndexError"
    /\ Scheduled =>
          /\ NumOscs = shape.h * shape.w
          /\ \A i \in DOMAIN oscs : oscs[i].f = BoustrophedonCell(i, shape.w)

\* the oscillator list is sorted by start
SortedByStart ==
    \A i \in DOMAIN oscs : i > 0 => oscs[i - 1].start <= oscs[i].start

\* the output of render_audio with one block holding every frame
OneBlockRender ==
    LET adm == Admit(<<>>, 0, n_total, oscs, args.sr)
        act == DropEnded(adm.active, 0, oscs, args.sr)
    IN  [s \in 0 .. (n_total - 1) |->
            IF NumOscs = 0 THEN <<<<>>, <<>>>>
            ELSE Accumulate(<<<<>>, <<>>>>,
                            BlockSum(act, s, oscs, args.sr, ~args.stereo,
                                                  FadeSamples(args.sr, fade_ms)))]

\* number of terms oscillator i has in a channel sum
TermCount(sum, i) == Cardinality({k \in 1 .. Len(sum) : sum[k].osc = i})

\* C5: block-size invariance. For an oscillator list sorted by start the
\* buffer rendered block by block, whatever the block length, equals the
\* buffer rendered as one block, and every sample holds exactly one term of
\* every oscillator whose sample window contains it, and none of the others.
C5_BlockSizeInvariance ==
    (pc = "rendered" /\ SortedByStart)
        => /\ out = OneBlockRender
           /\ \A s \in DOMAIN out, i \in DOMAIN oscs, ch \in 1 .. 2 :
                 TermCount(out[s][ch], i) =
                     IF start_sample(oscs[i], args.sr) <= s
                        /\ s < end_sample(oscs[i], args.sr)
                     THEN 1 ELSE 0

\* C5 witness: a render of several blocks of more than one frame, with two
\* oscillators sounding in one sample and an oscillator that sounds in two
\* different blocks
C5_Witness ==
    /\ pc = "rendered"
    /\ SortedByStart
    /\ n_block > 1
    /\ b > 1
    /\ \E s \in DOMAIN out : Len(out[s][1]) >= 2
    /\ \E s1 \in DOMAIN out, s2 \in DOMAIN out, i \in DOMAIN oscs :
          /\ s1 \div n_block # s2 \div n_block
          /\ TermCount(out[s1][1], i) = 1
          /\ TermCount(out[s2][1], i) = 1

\* C9 (as claimed): with voices <= 0 the engine behaves as with voices = 1:
\* no exception, end = start + step_s > start for every oscillator,
\* T = N * step_s + sustain_s, and the per-oscillator gain of one voice.
C9_VoicesClampedToOne ==
    (args.voices <= 0 /\ args.step_ms > 0)
        => /\ exc \notin {"ValueError", "ZeroDivisionError"}
           /\ Scheduled =>
                 /\ \A i \in DOMAIN oscs :
                       /\ oscs[i].end = oscs[i].start + args.step_ms
                       /\ oscs[i].end > oscs[i].start
                 /\ T = shape.h * shape.w * args.step_ms + args.sustain_ms
           /\ pc \in {"rendering", "rendered"} => per_osc_gain = PerOscGain(1)

\* C10 (as claimed): with step_ms <= 0 neither the duration-to-shape
\* computation nor the scheduler raises, and the oscillators still have
\* non-decreasing start times and end > start.
C10_StepClamped ==
    (args.step_ms <= 0 /\ args.voices >= 1)
        => /\ exc \notin {"ValueError", "ZeroDivisionError"}
           /\ Scheduled =>
                 \A i \in DOMAIN oscs :
                    /\ i > 0 => oscs[i - 1].start <= oscs[i].start
                    /\ oscs[i].end > oscs[i].start

(***************************************************************************)
(* Properties of the live loop.                                            *)
(***************************************************************************)
\* C6: update_buffer swaps the buffer and resets the cursor as one step under
\* the lock the callback holds for its whole read-and-advance: the pair the
\* callback works on is the current buffer with the cursor set or advanced
\* for that very buffer, and outside the critical sections the shared pair
\* is never that of two different updates.
C6_AtomicSwap ==
    /\ cb.pc = "copy" =>
          /\ cb.pGen = cb.buf.gen
          /\ cb.buf = buffer
          /\ cb.p = pos
    /\ lock = "free" => posGen = buffer.gen
    /\ cb.pc \in {"read_buffer", "read_pos", "copy", "release"} => lock = "callback"
    /\ ctl.pc \in {"set_buffer", "set_pos", "release"} => lock = "control"

\* C6 witness: the callback holds an updated buffer and an advanced cursor
\* while the control thread waits for the lock with the next buffer
C6_Witness ==
    /\ cb.pc = "copy"
    /\ cb.buf.gen = 1
    /\ cb.p > 0
    /\ ctl.pc = "acquire"
    /\ ctl.new_buffer.gen = 2

\* C7: whenever the lock is free the cursor satisfies
\* 0 <= pos < max(1, buffer length), and the callback raises nothing and
\* reads the buffer at indices of [0, buffer length) only.
C7_CursorInRange ==
    /\ lock = "free" => 0 <= pos /\ pos < Max(1, NumFrames(buffer))
    /\ cb.exc = "none"
    /\ cb.pc = "copy" =>
          LET n == NumFrames(cb.buf)
              copies == CallbackCopies(n, cb.p, cb.frames)
          IN  /\ 0 <= cb.p /\ cb.p < n
              /\ \A k \in 1 .. Len(copies) :
                    /\ 0 <= copies[k].sa /\ copies[k].sa <= copies[k].sb
                    /\ copies[k].sb <= n
                    /\ 0 <= copies[k].ta /\ copies[k].ta <= copies[k].tb
                    /\ copies[k].tb <= cb.frames
                    /\ copies[k].sb - copies[k].sa = copies[k].tb - copies[k].ta

\* C7 witness: update_buffer has stored a buffer shorter than the cursor
\* (empty, or not) and is about to reset the cursor
C7_Witness ==
    /\ ctl.pc = "set_pos"
    /\ pos > NumFrames(buffer)
    /\ cb.pc = "acquire"

\* C8: for a buffer of n >= 1 frames and cursor p the callback writes
\* outdata[k] = buffer[(p + k) mod n] for every 0 <= k < frames, leaves the
\* cursor at (p + frames) mod n and does not modify the buffer.
C8_LoopPlayback ==
    (cb.pc = "release" /\ NumFrames(cb.buf) >= 1)
        => LET n == NumFrames(cb.buf)
           IN  /\ DOMAIN cb.outdata = 0 .. (cb.frames - 1)
               /\ \A k \in 0 .. (cb.frames - 1) :
                     cb.outdata[k] = cb.buf.data[(cb.p + k) % n]
               /\ pos = (cb.p + cb.frames) % n
               /\ buffer = cb.buf

\* C8 witness: a callback has played more than two rounds of a buffer of
\* two frames or more, starting inside it
C8_Witness ==
    /\ cb.pc = "release"
    /\ NumFrames(cb.buf) >= 2
    /\ cb.p > 0
    /\ cb.frames > 2 * NumFrames(cb.buf)
    /\ cb.outdata[0] = cb.buf.data[cb.p]

(***************************************************************************)
(* Properties of the waveform table and of repeated renders.               *)
(***************************************************************************)
\* render_audio has been entered in the run in progress, and has returned
\* or raised
RenderLeft == pc = "rendered" \/ (pc = "failed" /\ exc = "ValueError")

\* C11 (as claimed): with an unknown waveform kind render_audio returns no
\* buffer and starts no synthesis, whatever its other inputs, an empty
\* oscillator list and a zero duration included: it raises.
C11_UnknownWaveformFailsFast ==
    (LutKind(waveform) = "unknown" /\ pc \notin {"start", "shaped", "planned"})
        => /\ pc \notin {"rendering", "rendered"}
           /\ RenderLeft => exc = "ValueError"

\* C12 (as claimed): for an empty grid and a valid configuration neither
\* plan_schedule nor render_audio raises, the schedule is empty and the
\* rendered buffer has 0 frames.
C12_EmptyGrid ==
    (/\ shape.h * shape.w = 0
     /\ pc # "start"
     /\ args.voices >= 1
     /\ args.step_ms > 0
     /\ LutKind(waveform) # "unknown")
        => /\ exc = "none"
           /\ Scheduled => NumOscs = 0
           /\ pc = "rendered" => Cardinality(DOMAIN out) = 0

\* C13 (as claimed): over the renders of one process the table of a
\* waveform kind is built at most once.
C13_TableBuiltOnce == \A k \in LutKinds : lutBuilds[k] <= 1

\* C17: determinism. A run of plan_schedule and render_audio that ends with
\* the arguments and the grid of a run kept earlier ends with that run's
\* result: the same exception, or the same oscillator list, duration and
\* buffer, whatever runs came before the kept one or between the two.
C17_Determinism ==
    (pc \in {"rendered", "failed"} /\ ref.set /\ ref.input = CallInput)
        => ref.result = CallResult

\* C17 witness: the third run repeats the second, which was kept, after a
\* first run on other arguments; both rendered the 2x2 grid with two
\* voices over several blocks, two oscillators sounding together
C17_Witness ==
    /\ pc = "rendered"
    /\ calls = 3
    /\ ref.set
    /\ ref.call = 2
    /\ ref.input = CallInput
    /\ ref.result = CallResult
    /\ shape = [h |-> 2, w |-> 2]
    /\ args.voices = 2
    /\ b > 1
    /\ \E s \in DOMAIN out : Len(out[s][1]) >= 2

(***************************************************************************)
(* Properties of the wav encoder.                                          *)
(***************************************************************************)
\* C14: encoder normalisation. Every sample the encoder writes is the input
\* sample times min(1, 0.999 / peak) (times 1 for a silent buffer) times
\* 32767, cut toward zero: it lies in [-32767, 32767], keeps the sign of
\* its input, and a buffer whose peak is at most 0.999 is not rescaled.
C14_EncoderNormalisation ==
    enc.pc = "written"
        => LET vals == enc.data_lr.vals
               q == enc.file.samples
               peak == MaxAbs(vals)
           IN  /\ Len(q) = Len(vals)
               /\ \A k \in 1 .. Len(vals) :
                     /\ q[k] >= -32767 /\ q[k] <= 32767
                     /\ q[k] = 0 \/ ((q[k] > 0) = (vals[k] > 0))
                     /\ IF peak <= 999
                        THEN /\ 1000 * Abs(q[k]) <= Abs(vals[k]) * 32767
                             /\ Abs(vals[k]) * 32767 < 1000 * (Abs(q[k]) + 1)
                        ELSE Abs(q[k]) =
                                 MulDiv(Abs(vals[k]) * 32767, 999, peak * 1000)

\* C14 witness: the frame (-2.0, 1.0) is written as (-32734, 16367): the
\* peak is brought to -0.999 and the other sample scaled by the same factor
C14_Witness ==
    /\ enc.pc = "written"
    /\ enc.data_lr.kind = "nx2"
    /\ enc.data_lr.vals = <<-2000, 1000>>
    /\ enc.file.samples = <<-32734, 16367>>

\* C15 (as claimed): an array whose shape is not (n, 2) makes the encoder
\* raise and nothing is encoded or written; an (n, 2) array, n = 0
\* included, is written without an exception.
C15_ShapeChecked ==
    enc.pc # "start"
        => IF enc.data_lr.kind = "nx2"
           THEN enc.exc = "none" /\ enc.pc = "written"
           ELSE enc.exc # "none" /\ enc.file = NoFile

\* C16: round trip. For a buffer of peak at most 0.999 every written
\* sample q, decoded as q / 32767, is within 1 / 32767 of the input sample.
C16_RoundTrip ==
    (enc.pc = "written" /\ MaxAbs(enc.data_lr.vals) <= 999)
        => \A k \in 1 .. Len(enc.data_lr.vals) :
              Abs(enc.data_lr.vals[k] * 32767 - 1000 * enc.file.samples[k]) <= 1000

\* C16 witness: the frame (-0.5, 0.999) is written as (-16383, 32734), both
\* with a quantisation error that is not zero
C16_Witness ==
    /\ enc.pc = "written"
    /\ enc.data_lr.kind = "nx2"
    /\ enc.data_lr.vals = <<-500, 999>>
    /\ enc.file.samples = <<-16383, 32734>>
    /\ \A k \in 1 .. 2 :
          enc.data_lr.vals[k] * 32767 # 1000 * enc.file.samples[k]

(***************************************************************************)
(* Properties of the live loop's stream and of the empty buffer.           *)
(***************************************************************************)
\* C18: when the shared buffer is empty the callback fills all of outdata
\* with zeros and raises nothing, and from its entry under the lock to its
\* return neither the cursor nor the buffer changes.
C18_EmptyBufferSilence ==
    /\ [](  (cb.pc = "release" /\ NumFrames(cb.buf) = 0)
            => /\ DOMAIN cb.outdata = 0 .. (cb.frames - 1)
               /\ \A k \in DOMAIN cb.outdata : cb.outdata[k] = ZeroFrame
               /\ cb.exc = "none"
               /\ buffer = cb.buf)
    /\ [][(lock = "callback" /\ NumFrames(buffer) = 0)
             => (pos' = pos /\ buffer' = buffer)]_vars

\* C18 witness: a callback asked for two frames or more has returned
\* silence for an empty buffer stored by update_buffer
C18_Witness ==
    /\ cb.pc = "release"
    /\ NumFrames(cb.buf) = 0
    /\ cb.buf.gen >= 1
    /\ cb.frames >= 2
    /\ cb.outdata[1] = ZeroFrame

\* the looper holds the output device: its stream is open
DeviceHeld == live.stream \in {"open", "active"}

\* C19 (as claimed): the loop is Idle or Playing, and once stop has
\* returned the looper no longer holds the device and no callback runs.
C19_StopReleasesDevice ==
    /\ live.stream \in {"none", "open", "active", "closed"}
    /\ live.stopped => (~DeviceHeld /\ cb.pc = "idle")

\* C20: when the output device cannot be acquired the caller gets the
\* error, the loop never plays and no callback runs, and the acquisition
\* is tried once only.
C20_DeviceFailureRaised ==
    /\ live.opens <= 1
    /\ live.refused
          => /\ live.exc = "PortAudioError"
             /\ live.stream = "none"
             /\ ~live.stopped
             /\ cb.pc = "idle"
             /\ nUpdates = 0

\* C20 witness: the one acquisition was refused and the error raised
C20_Witness ==
    /\ live.refused
    /\ live.opens = 1
    /\ live.exc = "PortAudioError"

(***************************************************************************)
(* Properties of the pan law and of the active set.                        *)
(***************************************************************************)
\* C21 (as claimed): in stereo a grid of width 1 gets the mid-position pan
\* x = 1/2 for its only column; in mono both gains are 1 for every column.
C21_WidthOnePan ==
    Scheduled
        => \A i \in DOMAIN oscs :
              /\ (args.stereo /\ shape.w = 1)
                    => /\ oscs[i].pan_l = constant_power_pan(1, 2)[1]
                       /\ oscs[i].pan_r = constant_power_pan(1, 2)[2]
              /\ ~args.stereo
                    => /\ oscs[i].pan_l = UnitGain
                       /\ oscs[i].pan_r = UnitGain

\* C22 (as claimed): for a schedule of plan_schedule with voices >= 1 and
\* step_ms > 0, current_active holds at most `voices` oscillators after
\* the admission and the filter of every block, whatever the block length.
C22_ActiveAtMostVoices ==
    (pc \in {"rendering", "rendered"} /\ args.voices >= 1 /\ args.step_ms > 0)
        => Len(current_active) <= args.voices

\* the block the last RenderBlock step worked on
LastS0 == (b - 1) * n_block

LastS1 == Min(n_total, b * n_block)

\* the members of current_active
ActiveSet == {current_active[k] : k \in 1 .. Len(current_active)}

\* C23: two-pointer active set. For a list sorted by start, after the admit
\* and filter steps of the block [s0, s1) current_active holds, once each,
\* exactly the oscillators with start_sample < s1 and end_sample > s0, and
\* next_osc is the number of oscillators with start_sample < s1; from block
\* to block next_osc never decreases and an oscillator that was admitted
\* and dropped does not come back.
C23_TwoPointerActiveSet ==
    /\ []((pc \in {"rendering", "rendered"} /\ b >= 1 /\ SortedByStart)
            => /\ ActiveSet = {i \in DOMAIN oscs :
                                  /\ start_sample(oscs[i], args.sr) < LastS1
                                  /\ end_sample(oscs[i], args.sr) > LastS0}
               /\ Cardinality(ActiveSet) = Len(current_active)
               /\ next_osc = Cardinality({i \in DOMAIN oscs :
                                  start_sample(oscs[i], args.sr) < LastS1}))
    /\ [][(pc = "rendering" /\ SortedByStart)
            => /\ next_osc' >= next_osc
               /\ \A i \in 0 .. (next_osc - 1) :
                     i \notin ActiveSet => i \notin ActiveSet']_vars

\* C23 witness: in one block of a multi-block render an oscillator has been
\* dropped, another stays from an earlier block and a third is still to come
C23_Witness ==
    /\ pc = "rendering"
    /\ SortedByStart
    /\ b >= 2
    /\ n_block > 1
    /\ Len(current_active) >= 1
    /\ 0 \notin ActiveSet
    /\ \E i \in ActiveSet : start_sample(oscs[i], args.sr) < LastS0
    /\ next_osc < NumOscs

\* the terms of both channels of frame s
FrameTerms(s) ==
    {out[s][1][k] : k \in 1 .. Len(out[s][1])} \cup
    {out[s][2][k] : k \in 1 .. Len(out[s][2])}

\* end_sample - start_sample of oscillator i
SpanOf(i) == end_sample(oscs[i], args.sr) - start_sample(oscs[i], args.sr)

\* C24: envelope clamp. Every contribution of an oscillator to a frame is
\* shaped with the fade length min(fade_samples, span \div 2), span =
\* end_sample - start_sample: it is in the fade-in when index - start_sample
\* is below that length, in the fade-out when end_sample - index is at most
\* that length, never in both, and carries no envelope when that length is 0.
C24_EnvelopeClamp ==
    pc \in {"rendering", "rendered"} =>
        \A s \in DOMAIN out : \A t \in FrameTerms(s) :
            LET eff == Min(FadeSamples(args.sr, fade_ms), SpanOf(t.osc) \div 2)
                ds == s - start_sample(oscs[t.osc], args.sr)
                de == end_sample(oscs[t.osc], args.sr) - s
            IN  /\ eff <= 0 => t.env = NoEnvelope
                /\ eff > 0 => /\ t.env.nfj = eff
                              /\ t.env.m_in = (ds < eff)
                              /\ t.env.m_out = (de <= eff)
                /\ ~(t.env.m_in /\ t.env.m_out)

\* C24 witness: a finished render in which the fade is longer than half the
\* span of an oscillator, so that the clamp decides, with a frame of that
\* oscillator in its fade-in, one in its fade-out and one in neither
C24_Witness ==
    /\ pc = "rendered"
    /\ \E i \in DOMAIN oscs :
          /\ SpanOf(i) \div 2 >= 1
          /\ FadeSamples(args.sr, fade_ms) > SpanOf(i) \div 2
          /\ \E s \in DOMAIN out : \E t \in FrameTerms(s) :
                t.osc = i /\ t.env.m_in
          /\ \E s \in DOMAIN out : \E t \in FrameTerms(s) :
                t.osc = i /\ t.env.m_out
          /\ \E s \in DOMAIN out : \E t \in FrameTerms(s) :
                t.osc = i /\ t.env.nfj > 0 /\ ~t.env.m_in /\ ~t.env.m_out

\* C25: zero outside the window. No frame with an index below start_sample
\* or at or above end_sample of an oscillator holds a term of that
\* oscillator, in either channel, whatever the blocks it was active in; and
\* the frames written are those of the buffer, 0 .. n_total - 1, also when
\* an oscillator ends after the rendered duration.
C25_ZeroOutsideWindow ==
    pc \in {"rendering", "rendered"} =>
        /\ DOMAIN out = 0 .. (n_total - 1)
        /\ \A s \in DOMAIN out : \A i \in DOMAIN oscs :
              (s < start_sample(oscs[i], args.sr) \/ s >= end_sample(oscs[i], args.sr))
                  => TermCount(out[s][1], i) = 0 /\ TermCount(out[s][2], i) = 0

\* C25 witness: the block just rendered held an active oscillator that
\* covers only a part of it, the oscillator is heard in the block, and an
\* active oscillator ends after the last frame of the buffer
C25_Witness ==
    /\ pc = "rendering"
    /\ b >= 1
    /\ \E i \in ActiveSet :
          /\ \E s \in LastS0 .. (LastS1 - 1) :
                s < start_sample(oscs[i], args.sr) \/ s >= end_sample(oscs[i], args.sr)
          /\ \E s \in LastS0 .. (LastS1 - 1) : TermCount(out[s][1], i) = 1
    /\ \E i \in ActiveSet : end_sample(oscs[i], args.sr) > n_total

\* C26: waveform table lookup. A table has exactly size entries, entry k
\* sampled at phase k / size for k = 0 .. size - 1 (phase 1.0 is not among
\* them); for a phase num / den of [0, 1) the index used is
\* floor(phase * size) mod size, lies in 0 .. size - 1, and the value
\* returned is the entry at that index.
C26_TableLookup ==
    /\ lk.pc \in {"built", "looked"} =>
          /\ DOMAIN lk.table = 0 .. (lk.size - 1)
          /\ \A k \in DOMAIN lk.table :
                lk.table[k] = [kind |-> lk.kind, num |-> k, den |-> lk.size]
    /\ (lk.pc = "looked" /\ lk.num < lk.den) =>
          /\ lk.idx = ((lk.num * lk.size) \div lk.den) % lk.size
          /\ lk.idx \in 0 .. (lk.size - 1)
          /\ lk.value = [kind |-> lk.kind, num |-> lk.idx, den |-> lk.size]

\* C26 witness: a lookup in the table of WAVE_LUT_SIZE entries at a phase of
\* (0, 1) that falls between two entries
C26_Witness ==
    /\ lk.pc = "looked"
    /\ lk.size = WAVE_LUT_SIZE
    /\ 0 < lk.num
    /\ lk.num < lk.den
    /\ lk.idx > 0
    /\ lk.idx * lk.den < lk.num * lk.size

\* C27: the callers' calls are accepted. With a valid configuration the
\* calls cli.main and LiveEngine.render_loop make to plan_schedule and
\* render_audio bind to the definitions of audio.py (every required
\* parameter supplied, no unknown parameter), so no run of a caller ends in a
\* TypeError.
C27_CallsAccepted ==
    (caller \in Callers /\ args.step_ms > 0 /\ args.voices >= 1) =>
        /\ pc = "failed" => exc # "TypeError"
        /\ pc = "planned" =>
              Bind(RenderAudioRequired, RenderAudioOptional,
                   RenderAudioCall(caller)) = "none"

\* C28: the lock is released on every path. The lock is held by the
\* callback exactly while it is inside its with block (the empty-buffer
\* return included) and by update_buffer exactly while it is inside its
\* own; under fair scheduling every callback invocation and every
\* update_buffer call completes, so the two never deadlock.
C28_LockReleased ==
    /\ [](lock = "callback" <=> cb.pc \in {"read_buffer", "read_pos", "copy", "release"})
    /\ [](lock = "control" <=> ctl.pc \in {"set_buffer", "set_pos", "release"})
    /\ (cb.pc # "idle") ~> (cb.pc = "idle")
    /\ (ctl.pc # "idle") ~> (ctl.pc = "idle")

\* C28 witness: the callback is on its empty-buffer return, still inside
\* the with block, while update_buffer waits for the lock
C28_Witness ==
    /\ cb.pc = "release"
    /\ NumFrames(cb.buf) = 0
    /\ cb.frames > 0
    /\ lock = "callback"
    /\ ctl.pc = "acquire"

\* C29: a failed live re-render. The step in which engine.render_loop
\* raises inside _regenerate_audio leaves the looper's buffer and cursor as
\* they were, does not enter update_buffer, returns the error as the status
\* string and lets no exception escape.
C29_FailedRegenKeepsSound ==
    [][live'.fails > live.fails =>
          /\ buffer' = buffer
          /\ pos' = pos
          /\ posGen' = posGen
          /\ lock' = lock
          /\ ctl.pc = "idle"
          /\ ctl' = ctl
          /\ cb' = cb
          /\ nUpdates' = nUpdates
          /\ live'.status = "Erreur rendu audio"
          /\ live'.exc = live.exc
          /\ live'.stream = live.stream]_vars

\* C29 witness: a re-render has failed after a sound was installed, and the
\* callback is playing that sound from where the cursor was
C29_Witness ==
    /\ live.fails >= 1
    /\ live.status = "Erreur rendu audio"
    /\ live.stream = "active"
    /\ nUpdates >= 1
    /\ NumFrames(buffer) > 1
    /\ pos > 0
    /\ cb.pc = "copy"

\* a crop that lies inside an image of W x H
ValidCrop(c, W, H) ==
    /\ 0 <= c.x /\ c.x < W
    /\ 0 <= c.y /\ c.y < H
    /\ c.w >= 1 /\ c.h >= 1
    /\ c.x + c.w <= W
    /\ c.y + c.h <= H

\* C30: the crop stays inside the image. On an image of W x H, W, H >= 1,
\* after construction and after any set_crop / set_center_crop with
\* arbitrary integers the engine's crop has 0 <= x < W, 0 <= y < H, w >= 1,
\* h >= 1, x + w <= W and y + h <= H; a crop asked for that is valid
\* already is kept as it is, and clamping the kept crop changes nothing.
C30_CropInsideImage ==
    /\ ValidCrop(eng.crop, eng.W, eng.H)
    /\ ValidCrop(eng.req, eng.W, eng.H) => eng.crop = eng.req
    /\ clamp(eng.crop, eng.W, eng.H) = eng.crop

\* C30 witness: on an image larger than the default crop a crop was asked
\* for that starts inside the image and reaches beyond its right and lower
\* edges, and it was cut at the edges
C30_Witness ==
    /\ eng.W > DefaultCropSize
    /\ eng.req.x > 0
    /\ eng.req.y > 0
    /\ eng.req.x + eng.req.w > eng.W
    /\ eng.req.y + eng.req.h > eng.H
    /\ eng.crop.x = eng.req.x
    /\ eng.crop.w < eng.req.w
    /\ eng.crop.h < eng.req.h

=============================================================================
